---- MODULE Spec2Model ----
(***************************************************************************)
(* Model of the guild playback scheduler of melodic-salutations-go         *)
(* (internal/greeter/greeter.go): voice-state event handlers, the global   *)
(* dispatch loop, the playback workers and the mutex embedded in           *)
(* greeterRunner, which the signed-URL goroutines of the list command      *)
(* share.                                                                  *)
(*                                                                         *)
(* Granularity: one action per statement group that other goroutines can   *)
(* observe.  Lock() and Unlock() are separate steps wherever an external   *)
(* call or a panic can happen in between.  Reads and writes made without   *)
(* the mutex are single steps of their own.  An unrecovered panic ends the *)
(* process (panicked), after which no goroutine takes a step.              *)
(*                                                                         *)
(* Scope: one voice channel per guild.  The dca stream is external: it     *)
(* delivers one completion value on doneChan and may later close it.       *)
(*                                                                         *)
(* The paginated messages of upload, voicelines and delete, with their     *)
(* timers and component handlers, are a second part of the model with      *)
(* specifications of its own (SpecPages, SpecPagesSerial); the two parts   *)
(* share only the process, which a panic in either ends.                   *)
(*                                                                         *)
(* Three more specifications look at one call or command at a time:        *)
(* SpecEmbeds runs embeds.GetSuccessfulAudioRetrievalEmbeds on every list  *)
(* of urls up to MaxItems; SpecStorage runs one /upload, one selection in  *)
(* the delete menu and one voice event's choice of a track against the     *)
(* bucket and the member's document, every external call failing or not;   *)
(* SpecFair is the playback core with the worker goroutines scheduled      *)
(* fairly.                                                                 *)
(***************************************************************************)
EXTENDS Integers, Sequences, FiniteSets, TLC

\* ---------------------------------------------------------------- bounds
MaxEvents == 2

Guilds == {"g1", "g2"}
\* Guild identifiers are interchangeable: the first event is taken to be FirstGuild's
FirstGuild == "g1"
Events == 1..MaxEvents
Files == 1..MaxEvents
PlayerIds == 1..MaxEvents
WorkerIds == 1..(2 * MaxEvents)
SignTasks == {1}
\* The paginated messages, the button presses on them, and the most tracks
\* one user has
Messages == {1}
Actions == {1, 2, 3}
MaxItems == 10

\* ------------------------------------------------------------- constants
Playing == "PLAYING"
NotPlaying == "NOT_PLAYING"

\* discordgo.PermissionVoiceConnect and discordgo.PermissionVoiceSpeak
PermissionVoiceConnect == "connect"
PermissionVoiceSpeak == "speak"
Permissions == {PermissionVoiceConnect, PermissionVoiceSpeak}

NoPlayer == 0
NoFile == 0
NoTask == <<"none", 0>>
HandlerTask(h) == <<"handler", h>>
WorkerTask(w) == <<"worker", w>>
SignTask(s) == <<"sign", s>>

VARIABLES
    mu,                   \* holder of greeterRunner's embedded RWMutex (write side)
    guildPlayerMappings,  \* guild -> player object, or NoPlayer
    players,              \* heap of guildPlayer objects
    nextPlayer,           \* next guildPlayer object to allocate
    voiceConnections,     \* session.VoiceConnections: the bot sits in the guild's channel
    humans,               \* humans in the guild's voice channel
    handlers,             \* one voiceUpdate invocation per voice event
    workers,              \* one playAudio goroutine per received signal
    nextWorker,           \* next playAudio goroutine to spawn
    tempFiles,            \* staged files present on disk
    nextFile,             \* next name os.CreateTemp hands out
    deleteCalls,          \* file -> number of util.DeleteFile calls on it
    streamed,             \* player -> files in the order their streams started
    signers,              \* signed-URL goroutines of extractAudioTracksForUser
    panicked,             \* an unrecovered panic ended the process
    messageStore,         \* message -> its paginationState, or NoState
    messages,             \* the messages as Discord shows them, and their commands
    actions,              \* one messageComponentHandler invocation per button press
    embedCall,            \* one call of embeds.GetSuccessfulAudioRetrievalEmbeds
    blobs,                \* the names of the objects under voicelines/ in the bucket
    archive,              \* the names of the objects under archive/<member>/
    document,             \* the member's document of the collection, with its array
    uploadCall,           \* one /upload command, with its per-file goroutines
    deleteCall,           \* one selection in the delete menu, with its goroutines
    greetCall             \* one voice event's choice and download of a track

vars == <<mu, guildPlayerMappings, players, nextPlayer, voiceConnections, humans,
          handlers, workers, nextWorker, tempFiles, nextFile, deleteCalls,
          streamed, signers, panicked, messageStore, messages, actions, embedCall,
          blobs, archive, document, uploadCall, deleteCall, greetCall>>

\* The variables of the playback core and of the paginated messages
appvars == <<mu, guildPlayerMappings, players, nextPlayer, voiceConnections, humans,
             handlers, workers, nextWorker, tempFiles, nextFile, deleteCalls,
             streamed, signers, panicked, messageStore, messages, actions>>

\* The bucket, the document and the commands that write them
storevars == <<blobs, archive, document, uploadCall, deleteCall, greetCall>>

\* The variables of the calls and commands that have specifications of their own
callvars == <<embedCall, storevars>>

\* The variables of the paginated messages, and those of the playback core,
\* each with the variables neither part touches
pagevars == <<messageStore, messages, actions, callvars>>
playvars == <<mu, guildPlayerMappings, players, nextPlayer, voiceConnections, humans,
              handlers, workers, nextWorker, tempFiles, nextFile, deleteCalls,
              streamed, signers, callvars>>

\* ------------------------------------------------------------ data model
guildPlayer(g) ==
    [guildID |-> g, voiceClient |-> TRUE, queue |-> <<>>, voiceState |-> NotPlaying]

NoGuildPlayer ==
    [guildID |-> "", voiceClient |-> FALSE, queue |-> <<>>, voiceState |-> NotPlaying]

\* A voiceUpdate invocation: its position and its event's guild.  The other
\* fields record what the invocation has seen, for the properties: the
\* permissions the lookup returned (from the lookup to the voice join), why it
\* is about to log, unlock and return (why),
\* and what the queue and state were when it appended (wasEmpty, wasIdle; from
\* the append to the signal decision).
IdleHandler ==
    [pc |-> "idle", guild |-> "", perms |-> {}, why |-> "",
     wasEmpty |-> FALSE, wasIdle |-> FALSE]

\* A returned invocation
DoneHandler ==
    [pc |-> "done", guild |-> "", perms |-> {}, why |-> "",
     wasEmpty |-> FALSE, wasIdle |-> FALSE]

IdleWorker ==
    [pc |-> "unborn", gp |-> NoPlayer, audioPath |-> NoFile]

\* itemsPerPage: the fields of one page and the options of one select menu
itemsPerPage == 4

\* A message without a paginationState, and a state without SelectMenuData
\* (a nil slice; delete never stores an empty one)
NoState == [exists |-> FALSE]
NilData == <<>>

\* paginationState.  Pages holds the number of fields of each page, the only
\* property of an embed the handler reads; SelectMenuData holds the track
\* names, numbered in order.  CurrentPage counts from 0 as in the code.
paginationState(pages, data, bound) ==
    [exists |-> TRUE, CurrentPage |-> 0, Pages |-> pages,
     SelectMenuData |-> data, SelectMenuBound |-> bound]

\* The four buttons in the order first, previous, next, last; TRUE is disabled
NoButtons == <<>>

\* A message as Discord holds it: whether it is shown, the page, buttons and
\* select-menu options [lo, hi) of its last rendering, and whether its
\* deletion timer runs.  flow and pages are locals of the command that sent
\* it, cmd is the position of that command.
NoMessage ==
    [status |-> "none", flow |-> "", page |-> 0, buttons |-> NoButtons,
     lo |-> 0, hi |-> 0, timer |-> FALSE, pages |-> <<>>, cmd |-> "idle"]

\* The interaction responses: none, and discordgo.InteractionResponseUpdateMessage
NoResponse == "none"
InteractionResponseUpdateMessage == "UpdateMessage"

\* A messageComponentHandler invocation for a button: its position, message
\* and button, and the locals it has computed (forwardButtonPressed, the
\* button states, the select-menu options [lo, hi)).  For the properties,
\* from is the page a prev or next found (kept up to the fetch) and response
\* is the interaction response it sent, if any.
IdleAction ==
    [pc |-> "idle", msg |-> 0, kind |-> "", forward |-> FALSE, from |-> 0,
     buttons |-> NoButtons, lo |-> 0, hi |-> 0, response |-> NoResponse]

\* A returned invocation
DoneAction(response) == [IdleAction EXCEPT !.pc = "done", !.response = response]

\* The locals of a call of embeds.GetSuccessfulAudioRetrievalEmbeds: the urls
\* it was given, the fields and embeds built so far (a field is its number
\* and its url, an embed is its fields), the index i of the second loop and
\* the position of the call
NoEmbedCall ==
    [pc |-> "none", urls |-> <<>>, embedFields |-> <<>>, embedList |-> <<>>, i |-> 0]

\* The state after construction, but for the single calls
InitBase ==
    /\ mu = NoTask
    /\ guildPlayerMappings = [g \in Guilds |-> NoPlayer]
    /\ players = [p \in PlayerIds |-> NoGuildPlayer]
    /\ nextPlayer = 1
    /\ voiceConnections = [g \in Guilds |-> FALSE]
    /\ humans = [g \in Guilds |-> 0]
    /\ handlers = [h \in Events |-> IdleHandler]
    /\ workers = [w \in WorkerIds |-> IdleWorker]
    /\ nextWorker = 1
    /\ tempFiles = {}
    /\ nextFile = 1
    /\ deleteCalls = [f \in Files |-> 0]
    /\ streamed = [p \in PlayerIds |-> <<>>]
    /\ signers = [s \in SignTasks |-> "idle"]
    /\ panicked = FALSE
    /\ messageStore = [m \in Messages |-> NoState]
    /\ messages = [m \in Messages |-> NoMessage]
    /\ actions = [a \in Actions |-> IdleAction]

\* A document that does not exist, one that has no array under the key of
\* the category, and one whose array is empty
NoDocument == [exists |-> FALSE, hasArray |-> FALSE, array |-> <<>>]
NoArrayDocument == [exists |-> TRUE, hasArray |-> FALSE, array |-> <<>>]
EmptyDocument == [exists |-> TRUE, hasArray |-> TRUE, array |-> <<>>]

\* No /upload command and no selection in the delete menu
NoUploadCall ==
    [pc |-> "none", kind |-> "", entries |-> 0, fileList |-> {}, tasks |-> <<>>,
     urlsCreated |-> <<>>, appended |-> {}, result |-> "",
     acknowledged |-> FALSE, response |-> NoResponse]
NoDeleteCall ==
    [pc |-> "none", valuesSelected |-> {}, tracks |-> <<>>, tasks |-> <<>>, result |-> "",
     response |-> NoResponse]

\* The track name retrieveRandomAudioName returns with a nil error when it
\* finds no array: the empty string
NoTrack == -1

\* No voice event is choosing a track
NoGreetCall == [pc |-> "none", audioSlice |-> <<>>, track |-> NoTrack, result |-> ""]

\* Nothing stored and no command
InitStore ==
    /\ blobs = {}
    /\ archive = {}
    /\ document = NoDocument
    /\ uploadCall = NoUploadCall
    /\ deleteCall = NoDeleteCall
    /\ greetCall = NoGreetCall

Init ==
    /\ InitBase
    /\ embedCall = NoEmbedCall
    /\ InitStore

\* ------------------------------------------------------------- helpers
\* util.GetVoiceChannelMemberCount: the voice states in the channel, the bot's included
GetVoiceChannelMemberCount(g) ==
    humans[g] + (IF voiceConnections[g] THEN 1 ELSE 0)

\* util.DeleteFile with the stat and the remove swapped for a stat alone
DeleteFileStatOnly(f) ==
    /\ deleteCalls' = [deleteCalls EXCEPT ![f] = @ + 1]
    /\ tempFiles' = tempFiles

\* util.DeleteFile: stat, then remove; a missing file is an error and removes nothing
DeleteFile(f) ==
    /\ deleteCalls' = [deleteCalls EXCEPT ![f] = @ + 1]
    /\ tempFiles' = IF f \in tempFiles THEN tempFiles \ {f} ELSE tempFiles

\* go g.playAudio(gp): what the dispatch loop does with a received *guildPlayer
SpawnPlayAudio(gp) ==
    /\ workers' = [workers EXCEPT ![nextWorker] =
                      [pc |-> "check", gp |-> gp, audioPath |-> NoFile]]
    /\ nextWorker' = nextWorker + 1

\* ------------------------------------------------- voiceUpdate (handler)
\* g.isInBlacklist: the blacklist document exists and the lookup succeeded.  A
\* lookup error other than NotFound gives (false, err).
isInBlacklist(hasEntry, lookupOk) == hasEntry /\ lookupOk

\* A voice-state event arrives; the blacklist lookup (no lock held) is part of
\* the arrival.  hasEntry: the user has a blacklist document; lookupOk: the
\* lookup did not fail.  A failed lookup is logged and the handler goes on.
VoiceEvent(h, g, kind, hasEntry, lookupOk) ==
    /\ ~panicked
    /\ handlers[h].pc = "idle"
    /\ \A k \in Events : k < h => handlers[k].pc # "idle"
    /\ h = 1 => g = FirstGuild
    /\ kind = "left" => humans[g] > 0
    /\ humans' = [humans EXCEPT ![g] = IF kind = "join" THEN @ + 1 ELSE @ - 1]
    /\ handlers' = [handlers EXCEPT ![h] =
                       IF isInBlacklist(hasEntry, lookupOk) THEN DoneHandler
                       ELSE [@ EXCEPT !.guild = g,
                                      !.pc = IF kind = "left" THEN "left_lock" ELSE "lock"]]
    /\ UNCHANGED <<mu, guildPlayerMappings, players, nextPlayer, voiceConnections,
                   workers, nextWorker, tempFiles, nextFile, deleteCalls, streamed,
                   signers, panicked>>
    /\ UNCHANGED pagevars

\* hasLeft: g.Lock()
LeftLock(h) ==
    /\ ~panicked
    /\ handlers[h].pc = "left_lock"
    /\ mu = NoTask
    /\ mu' = HandlerTask(h)
    /\ handlers' = [handlers EXCEPT ![h].pc = "left_ext"]
    /\ UNCHANGED <<guildPlayerMappings, players, nextPlayer, voiceConnections, humans,
                   workers, nextWorker, tempFiles, nextFile, deleteCalls, streamed,
                   signers, panicked>>
    /\ UNCHANGED pagevars

\* The member-count branch of LeftCheck with the lock given up before the
\* disconnect and the removal
LeftCheckUnlockEarly(h, ok) ==
    LET g == handlers[h].guild
        onlyBot == GetVoiceChannelMemberCount(g) = 1
    IN
    /\ ~panicked
    /\ handlers[h].pc = "left_ext"
    /\ mu = HandlerTask(h)
    /\ mu' = NoTask
    /\ handlers' = [handlers EXCEPT ![h] =
                       IF ~ok THEN DoneHandler
                       ELSE IF onlyBot THEN [@ EXCEPT !.pc = "left_remove"]
                       ELSE [@ EXCEPT !.pc = "lock"]]
    /\ UNCHANGED <<guildPlayerMappings, players, nextPlayer, voiceConnections, humans,
                   workers, nextWorker, tempFiles, nextFile, deleteCalls, streamed,
                   signers, panicked>>
    /\ UNCHANGED pagevars

\* hasLeft: permission lookup and member count under the lock.  ok = FALSE is
\* any of the lookups failing or a permission missing: log, unlock, return.  With
\* other members left the handler unlocks and goes on to the outro; with a count
\* of 1 it keeps the lock and goes on to the disconnect.
LeftCheck(h, ok) ==
    LET g == handlers[h].guild
        onlyBot == GetVoiceChannelMemberCount(g) = 1
    IN
    /\ ~panicked
    /\ handlers[h].pc = "left_ext"
    /\ mu = HandlerTask(h)
    /\ mu' = IF ok /\ onlyBot THEN mu ELSE NoTask
    /\ handlers' = [handlers EXCEPT ![h] =
                       IF ~ok THEN DoneHandler
                       ELSE IF onlyBot THEN [@ EXCEPT !.pc = "left_remove"]
                       ELSE [@ EXCEPT !.pc = "lock"]]
    /\ UNCHANGED <<guildPlayerMappings, players, nextPlayer, voiceConnections, humans,
                   workers, nextWorker, tempFiles, nextFile, deleteCalls, streamed,
                   signers, panicked>>
    /\ UNCHANGED pagevars

\* Only the bot left: when the bot has a voice connection in the guild,
\* Disconnect and delete the guild's entry (a failed Disconnect deletes nothing);
\* g.Unlock(); return.
LeftRemove(h, disconnected) ==
    LET g == handlers[h].guild IN
    /\ ~panicked
    /\ handlers[h].pc = "left_remove"
    /\ mu = HandlerTask(h)
    /\ mu' = NoTask
    /\ IF voiceConnections[g] /\ disconnected
       THEN /\ voiceConnections' = [voiceConnections EXCEPT ![g] = FALSE]
            /\ guildPlayerMappings' = [guildPlayerMappings EXCEPT ![g] = NoPlayer]
       ELSE UNCHANGED <<voiceConnections, guildPlayerMappings>>
    /\ handlers' = [handlers EXCEPT ![h] = DoneHandler]
    /\ UNCHANGED <<players, nextPlayer, humans, workers, nextWorker, tempFiles,
                   nextFile, deleteCalls, streamed, signers, panicked>>
    /\ UNCHANGED pagevars

\* hasJoined || hasLeft: g.Lock()
Lock(h) ==
    /\ ~panicked
    /\ handlers[h].pc = "lock"
    /\ mu = NoTask
    /\ mu' = HandlerTask(h)
    /\ handlers' = [handlers EXCEPT ![h].pc = "join"]
    /\ UNCHANGED <<guildPlayerMappings, players, nextPlayer, voiceConnections, humans,
                   workers, nextWorker, tempFiles, nextFile, deleteCalls, streamed,
                   signers, panicked>>
    /\ UNCHANGED pagevars

\* The permission test with "and" for "or": it refuses only when both
\* permissions are missing
MissingPermissionBothOnly(perms) ==
    PermissionVoiceConnect \notin perms /\ PermissionVoiceSpeak \notin perms

\* perms&PermissionVoiceConnect == 0 || perms&PermissionVoiceSpeak == 0
MissingPermission(perms) ==
    PermissionVoiceConnect \notin perms \/ PermissionVoiceSpeak \notin perms

\* With an entry for the guild go straight to the track lookup.  Without one,
\* look up the bot's permissions on the target channel (under the lock): a
\* failed lookup or a missing permission logs, unlocks and returns.
CheckPermissions(h, lookupOk, perms) ==
    LET g == handlers[h].guild IN
    /\ ~panicked
    /\ handlers[h].pc = "join"
    /\ mu = HandlerTask(h)
    /\ IF guildPlayerMappings[g] # NoPlayer
       THEN /\ lookupOk /\ perms = Permissions
            /\ handlers' = [handlers EXCEPT ![h].pc = "fetch"]
       ELSE handlers' = [handlers EXCEPT ![h] =
                IF ~lookupOk \/ MissingPermission(perms)
                THEN [@ EXCEPT !.pc = "bail", !.why = "denied"]
                ELSE [@ EXCEPT !.pc = "voicejoin", !.perms = perms]]
    /\ UNCHANGED <<mu, guildPlayerMappings, players, nextPlayer, voiceConnections,
                   humans, workers, nextWorker, tempFiles, nextFile, deleteCalls,
                   streamed, signers, panicked>>
    /\ UNCHANGED pagevars

\* EnsurePlayer with the entry inserted before the join's error is looked at
EnsurePlayerInsertFirst(h, ok) ==
    LET g == handlers[h].guild IN
    /\ ~panicked
    /\ handlers[h].pc = "voicejoin"
    /\ mu = HandlerTask(h)
    /\ guildPlayerMappings' = [guildPlayerMappings EXCEPT ![g] = nextPlayer]
    /\ players' = [players EXCEPT ![nextPlayer] = guildPlayer(g)]
    /\ nextPlayer' = nextPlayer + 1
    /\ voiceConnections' = [voiceConnections EXCEPT ![g] = ok]
    /\ handlers' = [handlers EXCEPT ![h] =
                       IF ok THEN [@ EXCEPT !.pc = "fetch", !.perms = {}]
                       ELSE [@ EXCEPT !.pc = "bail", !.why = "joinFailed", !.perms = {}]]
    /\ UNCHANGED <<mu, humans, workers, nextWorker, tempFiles, nextFile, deleteCalls,
                   streamed, signers, panicked>>
    /\ UNCHANGED pagevars

\* session.ChannelVoiceJoin under the lock.  On success insert a NotPlaying
\* player with an empty queue; on failure log, unlock and return.
EnsurePlayer(h, ok) ==
    LET g == handlers[h].guild IN
    /\ ~panicked
    /\ handlers[h].pc = "voicejoin"
    /\ mu = HandlerTask(h)
    /\ IF ok
       THEN /\ guildPlayerMappings' = [guildPlayerMappings EXCEPT ![g] = nextPlayer]
            /\ players' = [players EXCEPT ![nextPlayer] = guildPlayer(g)]
            /\ nextPlayer' = nextPlayer + 1
            /\ voiceConnections' = [voiceConnections EXCEPT ![g] = TRUE]
            /\ handlers' = [handlers EXCEPT ![h] = [@ EXCEPT !.pc = "fetch", !.perms = {}]]
       ELSE /\ handlers' = [handlers EXCEPT ![h] =
                               [@ EXCEPT !.pc = "bail", !.why = "joinFailed", !.perms = {}]]
            /\ UNCHANGED <<guildPlayerMappings, players, nextPlayer, voiceConnections>>
    /\ UNCHANGED <<mu, humans, workers, nextWorker, tempFiles, nextFile, deleteCalls,
                   streamed, signers, panicked>>
    /\ UNCHANGED pagevars

\* Resolve a random track, download it, stage it and append it to the queue,
\* all under the lock, then g.Unlock().  res is "ok", "notFound" (the user has no
\* document for the category), "failed" (any other lookup error, a failed
\* download or a failed staging) or "emptyList" (the document's array is
\* empty); "notFound" and "failed" log, unlock and return, and on an empty
\* array rand.Intn(0) panics.
Fetch(h, res) ==
    LET g == handlers[h].guild
        p == guildPlayerMappings[g]
    IN
    /\ ~panicked
    /\ handlers[h].pc = "fetch"
    /\ mu = HandlerTask(h)
    /\ IF res = "ok"
       THEN /\ mu' = NoTask
            /\ tempFiles' = tempFiles \cup {nextFile}
            /\ nextFile' = nextFile + 1
            /\ players' = [players EXCEPT ![p].queue = Append(@, nextFile)]
            /\ handlers' = [handlers EXCEPT ![h] =
                               [@ EXCEPT !.pc = "check",
                                         !.wasEmpty = (players[p].queue = <<>>),
                                         !.wasIdle = (players[p].voiceState = NotPlaying)]]
            /\ UNCHANGED panicked
       ELSE IF res = "emptyList"
       THEN /\ panicked' = TRUE
            /\ UNCHANGED <<mu, tempFiles, nextFile, players, handlers>>
       ELSE /\ handlers' = [handlers EXCEPT ![h] = [@ EXCEPT !.pc = "bail", !.why = res]]
            /\ UNCHANGED <<mu, tempFiles, nextFile, players, panicked>>
    /\ UNCHANGED <<guildPlayerMappings, nextPlayer, voiceConnections, humans, workers,
                   nextWorker, deleteCalls, streamed, signers>>
    /\ UNCHANGED pagevars

\* An early return that forgets the Unlock
BailKeepLock(h) ==
    /\ ~panicked
    /\ handlers[h].pc = "bail"
    /\ mu = HandlerTask(h)
    /\ handlers' = [handlers EXCEPT ![h] = DoneHandler]
    /\ UNCHANGED <<mu, guildPlayerMappings, players, nextPlayer, voiceConnections, humans,
                   workers, nextWorker, tempFiles, nextFile, deleteCalls, streamed,
                   signers, panicked>>
    /\ UNCHANGED pagevars

\* The early return of the locked section: log, g.Unlock(), return
Bail(h) ==
    /\ ~panicked
    /\ handlers[h].pc = "bail"
    /\ mu = HandlerTask(h)
    /\ mu' = NoTask
    /\ handlers' = [handlers EXCEPT ![h] = DoneHandler]
    /\ UNCHANGED <<guildPlayerMappings, players, nextPlayer, voiceConnections, humans,
                   workers, nextWorker, tempFiles, nextFile, deleteCalls, streamed,
                   signers, panicked>>
    /\ UNCHANGED pagevars

\* After the unlock: read the entry's voiceState; NotPlaying means "send a signal".
\* The entry may be gone by now, and the nil dereference panics.
CheckState(h) ==
    LET p == guildPlayerMappings[handlers[h].guild] IN
    /\ ~panicked
    /\ handlers[h].pc = "check"
    /\ IF p = NoPlayer
       THEN /\ panicked' = TRUE
            /\ UNCHANGED handlers
       ELSE /\ handlers' = [handlers EXCEPT ![h] =
                               IF players[p].voiceState = NotPlaying
                               THEN [@ EXCEPT !.pc = "send",
                                              !.wasEmpty = FALSE, !.wasIdle = FALSE]
                               ELSE DoneHandler]
            /\ UNCHANGED panicked
    /\ UNCHANGED <<mu, guildPlayerMappings, players, nextPlayer, voiceConnections,
                   humans, workers, nextWorker, tempFiles, nextFile, deleteCalls,
                   streamed, signers>>
    /\ UNCHANGED pagevars

\* ---------------------------------------------------------- globalPlay
\* The handler evaluates g.guildPlayerMappings[vc.GuildID] again (nil when the
\* entry is gone by now) and sends it; the dispatch loop, which never blocks
\* between receives, takes it from the unbuffered songSignal, spawns a worker and
\* goes back to receiving.
GlobalPlayFromHandler(h) ==
    /\ ~panicked
    /\ handlers[h].pc = "send"
    /\ SpawnPlayAudio(guildPlayerMappings[handlers[h].guild])
    /\ handlers' = [handlers EXCEPT ![h] = DoneHandler]
    /\ UNCHANGED <<mu, guildPlayerMappings, players, nextPlayer, voiceConnections,
                   humans, tempFiles, nextFile, deleteCalls, streamed, signers, panicked>>
    /\ UNCHANGED pagevars

\* The same for the signal a worker sends after end-of-stream.
GlobalPlayFromWorker(w) ==
    /\ ~panicked
    /\ workers[w].pc = "resignal"
    /\ workers' = [workers EXCEPT
                      ![w].pc = "wait",
                      ![nextWorker] = [pc |-> "check", gp |-> workers[w].gp,
                                       audioPath |-> NoFile]]
    /\ nextWorker' = nextWorker + 1
    /\ UNCHANGED <<mu, guildPlayerMappings, players, nextPlayer, voiceConnections,
                   humans, handlers, tempFiles, nextFile, deleteCalls, streamed,
                   signers, panicked>>
    /\ UNCHANGED pagevars

\* ------------------------------------------------------ playAudio (worker)
\* Entry test, made without the lock: nil voice client or empty queue returns.
\* A nil *guildPlayer panics on the field read.
PlayCheck(w) ==
    LET p == workers[w].gp IN
    /\ ~panicked
    /\ workers[w].pc = "check"
    /\ IF p = NoPlayer
       THEN /\ panicked' = TRUE
            /\ UNCHANGED workers
       ELSE /\ workers' = [workers EXCEPT ![w].pc =
                              IF ~players[p].voiceClient \/ Len(players[p].queue) = 0
                              THEN "done" ELSE "lock"]
            /\ UNCHANGED panicked
    /\ UNCHANGED <<mu, guildPlayerMappings, players, nextPlayer, voiceConnections,
                   humans, handlers, nextWorker, tempFiles, nextFile, deleteCalls,
                   streamed, signers>>
    /\ UNCHANGED pagevars

\* g.Lock()
PlayLock(w) ==
    /\ ~panicked
    /\ workers[w].pc = "lock"
    /\ mu = NoTask
    /\ mu' = WorkerTask(w)
    /\ workers' = [workers EXCEPT ![w].pc = "dequeue"]
    /\ UNCHANGED <<guildPlayerMappings, players, nextPlayer, voiceConnections, humans,
                   handlers, nextWorker, tempFiles, nextFile, deleteCalls, streamed,
                   signers, panicked>>
    /\ UNCHANGED pagevars

\* voiceState = Playing; audioPath = queue[0]; queue = queue[1:]; g.Unlock().
\* queue[0] on a queue emptied since the entry test panics, the lock still held.
PlayDequeue(w) ==
    LET p == workers[w].gp IN
    /\ ~panicked
    /\ workers[w].pc = "dequeue"
    /\ mu = WorkerTask(w)
    /\ IF Len(players[p].queue) = 0
       THEN /\ players' = [players EXCEPT ![p].voiceState = Playing]
            /\ panicked' = TRUE
            /\ UNCHANGED <<mu, workers>>
       ELSE /\ players' = [players EXCEPT ![p].voiceState = Playing,
                                          ![p].queue = Tail(@)]
            /\ workers' = [workers EXCEPT ![w].pc = "encode",
                                          ![w].audioPath = Head(players[p].queue)]
            /\ mu' = NoTask
            /\ UNCHANGED panicked
    /\ UNCHANGED <<guildPlayerMappings, nextPlayer, voiceConnections, humans, handlers,
                   nextWorker, tempFiles, nextFile, deleteCalls, streamed, signers>>
    /\ UNCHANGED pagevars

\* dca.EncodeFile: on failure log and return (the deferred DeleteFile runs); on
\* success start the stream and write voiceState = Playing without the lock.
PlayEncode(w, ok) ==
    LET p == workers[w].gp IN
    /\ ~panicked
    /\ workers[w].pc = "encode"
    /\ IF ok
       THEN /\ players' = [players EXCEPT ![p].voiceState = Playing]
            /\ streamed' = [streamed EXCEPT ![p] = Append(@, workers[w].audioPath)]
            /\ workers' = [workers EXCEPT ![w].pc = "stream"]
            /\ UNCHANGED <<tempFiles, deleteCalls>>
       ELSE /\ workers' = [workers EXCEPT ![w].pc = "done"]
            /\ DeleteFile(workers[w].audioPath)
            /\ UNCHANGED <<players, streamed>>
    /\ UNCHANGED <<mu, guildPlayerMappings, nextPlayer, voiceConnections, humans,
                   handlers, nextWorker, nextFile, signers, panicked>>
    /\ UNCHANGED pagevars

\* StreamDone made to look the player up in the registry by its guild, where
\* a removed entry is a nil pointer
StreamDoneViaRegistry(w, err) ==
    /\ ~panicked
    /\ workers[w].pc = "stream"
    /\ IF guildPlayerMappings[players[workers[w].gp].guildID] = workers[w].gp
       THEN /\ workers' = [workers EXCEPT ![w].pc =
                              IF err = "eof"
                              THEN IF Len(players[workers[w].gp].queue) > 0
                                   THEN "resignal" ELSE "markidle"
                              ELSE "wait"]
            /\ UNCHANGED panicked
       ELSE /\ panicked' = TRUE
            /\ UNCHANGED workers
    /\ UNCHANGED <<mu, guildPlayerMappings, players, nextPlayer, voiceConnections,
                   humans, handlers, nextWorker, tempFiles, nextFile, deleteCalls,
                   streamed, signers>>
    /\ UNCHANGED pagevars

\* One value arrives on doneChan.  io.EOF: read len(queue) without the lock and
\* either go on to send a signal or go on to mark the guild idle.  nil or any
\* other error: log only.  Then the loop waits on doneChan again.
StreamDone(w, err) ==
    LET p == workers[w].gp IN
    /\ ~panicked
    /\ workers[w].pc = "stream"
    /\ workers' = [workers EXCEPT
                      ![w].pc = IF err = "eof"
                                THEN IF Len(players[p].queue) > 0
                                     THEN "resignal" ELSE "markidle"
                                ELSE "wait"]
    /\ UNCHANGED <<mu, guildPlayerMappings, players, nextPlayer, voiceConnections,
                   humans, handlers, nextWorker, tempFiles, nextFile, deleteCalls,
                   streamed, signers, panicked>>
    /\ UNCHANGED pagevars

\* guildPlayer.voiceState = NotPlaying, written without the lock
PlayMarkIdle(w) ==
    LET p == workers[w].gp IN
    /\ ~panicked
    /\ workers[w].pc = "markidle"
    /\ players' = [players EXCEPT ![p].voiceState = NotPlaying]
    /\ workers' = [workers EXCEPT ![w].pc = "wait"]
    /\ UNCHANGED <<mu, guildPlayerMappings, nextPlayer, voiceConnections, humans,
                   handlers, nextWorker, tempFiles, nextFile, deleteCalls, streamed,
                   signers, panicked>>
    /\ UNCHANGED pagevars

\* doneChan is closed: the range loop ends, playAudio returns and its deferred
\* DeleteFile runs.
StreamClose(w) ==
    /\ ~panicked
    /\ workers[w].pc = "wait"
    /\ workers' = [workers EXCEPT ![w].pc = "done"]
    /\ DeleteFile(workers[w].audioPath)
    /\ UNCHANGED <<mu, guildPlayerMappings, players, nextPlayer, voiceConnections,
                   humans, handlers, nextWorker, nextFile, streamed, signers, panicked>>
    /\ UNCHANGED pagevars

\* ------------------------------------- extractAudioTracksForUser goroutine
\* g.Lock() on the same mutex, before the signed-URL call
SignLock(s) ==
    /\ ~panicked
    /\ signers[s] = "idle"
    /\ mu = NoTask
    /\ mu' = SignTask(s)
    /\ signers' = [signers EXCEPT ![s] = "signing"]
    /\ UNCHANGED <<guildPlayerMappings, players, nextPlayer, voiceConnections, humans,
                   handlers, workers, nextWorker, tempFiles, nextFile, deleteCalls,
                   streamed, panicked>>
    /\ UNCHANGED pagevars

\* GenerateSignedURL under the lock: on error return err (no Unlock on this
\* path); otherwise append the track and g.Unlock().
SignURL(s, ok) ==
    /\ ~panicked
    /\ signers[s] = "signing"
    /\ mu = SignTask(s)
    /\ signers' = [signers EXCEPT ![s] = IF ok THEN "done" ELSE "failed"]
    /\ mu' = IF ok THEN NoTask ELSE mu
    /\ UNCHANGED <<guildPlayerMappings, players, nextPlayer, voiceConnections, humans,
                   handlers, workers, nextWorker, tempFiles, nextFile, deleteCalls,
                   streamed, panicked>>
    /\ UNCHANGED pagevars

\* ------------------------------------------------------------------ Next
\* ------------------------------------------------- paginated messages
\* Paginated messages (upload, voicelines, delete and messageComponentHandler).
\* discordgo runs every handler in a goroutine of its own and the code takes
\* no lock around messageStore or a paginationState, so a handler is one step
\* per statement group between two external calls, and the read-modify-write
\* of CurrentPage and its wraparound test are steps of their own.

Min(a, b) == IF a < b THEN a ELSE b
Max(a, b) == IF a > b THEN a ELSE b

\* embeds.GetSuccessfulAudioRetrievalEmbeds: one page per four urls, as the
\* number of fields of each page; no urls, no pages
GetSuccessfulAudioRetrievalEmbeds(urls) ==
    [i \in 1..((urls + itemsPerPage - 1) \div itemsPerPage) |->
        Min(urls, i * itemsPerPage) - (i - 1) * itemsPerPage]

\* The most pages a command sends
MaxPages == Len(GetSuccessfulAudioRetrievalEmbeds(MaxItems))

\* embeds.GetPaginationComponent: the disabled flags of first, prev, next, last
GetPaginationComponent(disableStart, disablePrevious, disableNext, disableFinish) ==
    <<disableStart, disablePrevious, disableNext, disableFinish>>

\* The position of a button in the action row
ButtonIndex(kind) ==
    CASE kind = "first" -> 1 [] kind = "prev" -> 2 [] kind = "next" -> 3 [] kind = "last" -> 4

PageActions == {"first", "prev", "next", "last"}

\* The first statement of the switch arm of a button: CurrentPage after it
Navigate(cp, kind, n) ==
    CASE kind = "first" -> 0
      [] kind = "last" -> n - 1
      [] kind = "prev" -> cp - 1
      [] kind = "next" -> cp + 1

\* A variant that keeps the page that fell off an end where it is
WrapPageClamped(cp, kind, n) ==
    CASE kind = "prev" -> IF cp < 0 THEN 0 ELSE cp
      [] kind = "next" -> IF cp >= n THEN n - 1 ELSE cp
      [] OTHER -> cp

\* The wraparound test of the prev and next arms: CurrentPage after it
WrapPage(cp, kind, n) ==
    CASE kind = "prev" -> IF cp < 0 THEN n - 1 ELSE cp
      [] kind = "next" -> IF cp >= n THEN 0 ELSE cp
      [] OTHER -> cp

\* buttonStatusMapping: the disabled flags the handler derives from the state
buttonStatusMapping(state) ==
    LET first == state.CurrentPage = 0
        last == state.CurrentPage = Len(state.Pages) - 1
    IN  <<first, first, last, last>>

\* The select-menu bounds the handler computes from the state: minBound,
\* maxBound, and whether the computation indexes Pages or SelectMenuData out
\* of range, which panics
SelectWindow(state, forwardButtonPressed) ==
    LET cp == state.CurrentPage
        n == Len(state.Pages)
        totalItems == Len(state.SelectMenuData)
        bound == state.SelectMenuBound
        backward == cp # 0 /\ cp # n - 1 /\ ~forwardButtonPressed
        badPage == backward /\ (cp + 2) \notin 1..n
        fieldsInPageAfter == IF badPage THEN 0 ELSE state.Pages[cp + 2]
        minBound == IF cp = 0 THEN 0
                    ELSE IF cp = n - 1 THEN Max(0, totalItems - state.Pages[cp + 1])
                    ELSE IF forwardButtonPressed THEN bound
                    ELSE bound - fieldsInPageAfter - 4
        rawMax == IF cp = 0 THEN Min(itemsPerPage, totalItems)
                  ELSE IF cp = n - 1 THEN totalItems
                  ELSE IF forwardButtonPressed THEN Min(bound + itemsPerPage, totalItems)
                  ELSE bound - fieldsInPageAfter
        maxBound == IF rawMax > totalItems THEN totalItems ELSE rawMax
    IN  [lo |-> minBound, hi |-> maxBound,
         panics |-> badPage \/ (minBound < maxBound /\ minBound < 0)]

\* A command has sent the first of pages; buttons and [0, hi) are the
\* components of the message.  A command that has nothing to store goes on to
\* util.DeleteMessageAfterTime, which starts the timer, and returns.
SendMessage(m, flow, pages, buttons, hi, stores) ==
    /\ ~panicked
    /\ messages[m].status = "none"
    /\ messages' = [messages EXCEPT ![m] =
                       [status |-> "shown", flow |-> flow, page |-> 0, buttons |-> buttons,
                        lo |-> 0, hi |-> hi, timer |-> ~stores, pages |-> pages,
                        cmd |-> IF stores THEN "store" ELSE "done"]]
    /\ UNCHANGED <<actions, panicked>>
    /\ UNCHANGED playvars

\* upload of a zip with n result pages: a single page is sent without buttons
\* and without a state.  The pages come from
\* embeds.SuccessfulAudioZipUploadEmbeds, whose fields the handler never reads.
upload(m, n) ==
    LET successfulUploadEmbeds == [i \in 1..n |-> itemsPerPage] IN
    /\ SendMessage(m, "upload", successfulUploadEmbeds,
                   IF Len(successfulUploadEmbeds) = 1 THEN NoButtons
                   ELSE GetPaginationComponent(TRUE, TRUE, FALSE, FALSE),
                   0, Len(successfulUploadEmbeds) # 1)
    /\ UNCHANGED messageStore

\* voicelines for a user with urls tracks: with none, successEmbeds[0] panics;
\* a single page is sent without buttons and without a state
voicelines(m, urls) ==
    LET successEmbeds == GetSuccessfulAudioRetrievalEmbeds(urls) IN
    IF Len(successEmbeds) = 0
    THEN /\ ~panicked
         /\ messages[m].status = "none"
         /\ panicked' = TRUE
         /\ UNCHANGED <<messageStore, messages, actions>>
         /\ UNCHANGED playvars
    ELSE /\ SendMessage(m, "list", successEmbeds,
                        IF Len(successEmbeds) = 1 THEN NoButtons
                        ELSE GetPaginationComponent(TRUE, TRUE, FALSE, FALSE),
                        0, Len(successEmbeds) # 1)
         /\ UNCHANGED messageStore

\* delete for a user with trackNames tracks (at least one): the select menu
\* offers the first menuBound of them, a single page has no buttons.  The
\* state is stored right after the message is sent, then the timer starts.
delete(m, trackNames) ==
    LET successEmbeds == GetSuccessfulAudioRetrievalEmbeds(trackNames)
        menuBound == Min(trackNames, itemsPerPage)
    IN
    /\ SendMessage(m, "delete", successEmbeds,
                   IF Len(successEmbeds) = 1 THEN NoButtons
                   ELSE GetPaginationComponent(FALSE, TRUE, FALSE, FALSE),
                   menuBound, FALSE)
    /\ messageStore' = [messageStore EXCEPT ![m] =
                           paginationState(successEmbeds, [i \in 1..trackNames |-> i],
                                           menuBound)]

\* upload and voicelines after the message is sent: util.DeleteMessageAfterTime
\* starts the timer, then g.messageStore[message.ID] = &paginationState{...}
StoreState(m) ==
    /\ ~panicked
    /\ messages[m].cmd = "store"
    /\ messageStore' = [messageStore EXCEPT ![m] =
                           paginationState(messages[m].pages, NilData, 0)]
    /\ messages' = [messages EXCEPT ![m].cmd = "done", ![m].timer = TRUE]
    /\ UNCHANGED <<actions, panicked>>
    /\ UNCHANGED playvars

\* The function time.AfterFunc runs: session.ChannelMessageDelete
TimerFires(m) ==
    /\ ~panicked
    /\ messages[m].timer
    /\ messages[m].cmd = "done"
    /\ messages' = [messages EXCEPT ![m].status = "deleted", ![m].timer = FALSE]
    /\ UNCHANGED <<messageStore, actions, panicked>>
    /\ UNCHANGED playvars

\* messageComponentHandler for the select menu of a delete message, all of its
\* calls succeeding: the tracks are archived and the message is replaced by
\* the completion embed without components, to be deleted 30 seconds later
SelectMenuDelete(m) ==
    /\ ~panicked
    /\ messages[m].status = "shown"
    /\ messages[m].flow = "delete"
    /\ messages[m].hi > messages[m].lo
    /\ messageStore[m].exists
    /\ messages' = [messages EXCEPT ![m].status = "completed", ![m].buttons = NoButtons,
                                    ![m].lo = 0, ![m].hi = 0, ![m].timer = TRUE]
    /\ UNCHANGED <<messageStore, actions, panicked>>
    /\ UNCHANGED playvars

\* messageComponentHandler for a button the message shows enabled: the lookup
\* of the state and, if there is one, the first statement of the switch arm
PageAction(a, m, kind) ==
    /\ ~panicked
    /\ actions[a].pc = "idle"
    /\ \A k \in Actions : k < a => actions[k].pc # "idle"
    /\ messages[m].status = "shown"
    /\ messages[m].buttons # NoButtons
    /\ ~messages[m].buttons[ButtonIndex(kind)]
    /\ IF messageStore[m].exists
       THEN /\ messageStore' = [messageStore EXCEPT ![m].CurrentPage =
                                   Navigate(@, kind, Len(messageStore[m].Pages))]
            /\ actions' = [actions EXCEPT ![a] =
                              IF kind \in {"prev", "next"}
                              THEN [@ EXCEPT !.pc = "wrap", !.msg = m, !.kind = kind,
                                             !.from = messageStore[m].CurrentPage]
                              ELSE [@ EXCEPT !.pc = "fetch", !.msg = m, !.kind = kind]]
       ELSE /\ actions' = [actions EXCEPT ![a] = DoneAction(NoResponse)]
            /\ UNCHANGED messageStore
    /\ UNCHANGED <<messages, panicked>>
    /\ UNCHANGED playvars

\* The wraparound test of the prev and next arms, and forwardButtonPressed
Wrap(a) ==
    LET m == actions[a].msg IN
    /\ ~panicked
    /\ actions[a].pc = "wrap"
    /\ messageStore' = [messageStore EXCEPT ![m].CurrentPage =
                           WrapPage(@, actions[a].kind, Len(messageStore[m].Pages))]
    /\ actions' = [actions EXCEPT ![a].pc = "fetch",
                                  ![a].forward = (actions[a].kind = "next")]
    /\ UNCHANGED <<messages, panicked>>
    /\ UNCHANGED playvars

\* session.ChannelMessage and the button states derived after it.  A deleted
\* message cannot be fetched; one without components makes Components[0] panic.
ChannelMessage(a, ok) ==
    LET m == actions[a].msg IN
    /\ ~panicked
    /\ actions[a].pc = "fetch"
    /\ ok => messages[m].status # "deleted"
    /\ IF ~ok
       THEN /\ actions' = [actions EXCEPT ![a] = DoneAction(NoResponse)]
            /\ UNCHANGED panicked
       ELSE IF messages[m].buttons = NoButtons
       THEN /\ panicked' = TRUE
            /\ UNCHANGED actions
       ELSE /\ actions' = [actions EXCEPT
                              ![a].pc = IF messageStore[m].SelectMenuData # NilData
                                        THEN "member" ELSE "edit",
                              ![a].from = 0,
                              ![a].buttons = buttonStatusMapping(messageStore[m])]
            /\ UNCHANGED panicked
    /\ UNCHANGED <<messageStore, messages>>
    /\ UNCHANGED playvars

\* session.GuildMember and the select-menu options computed after it
GuildMember(a, ok) ==
    LET m == actions[a].msg
        w == SelectWindow(messageStore[m], actions[a].forward)
    IN
    /\ ~panicked
    /\ actions[a].pc = "member"
    /\ IF ~ok
       THEN /\ actions' = [actions EXCEPT ![a] = DoneAction(NoResponse)]
            /\ UNCHANGED <<messageStore, panicked>>
       ELSE IF w.panics
       THEN /\ panicked' = TRUE
            /\ UNCHANGED <<messageStore, actions>>
       ELSE /\ actions' = [actions EXCEPT ![a].pc = "edit", ![a].lo = w.lo, ![a].hi = w.hi]
            /\ messageStore' = [messageStore EXCEPT ![m].SelectMenuBound = w.hi]
            /\ UNCHANGED panicked
    /\ UNCHANGED messages
    /\ UNCHANGED playvars

\* session.ChannelMessageEditComplex with Pages[CurrentPage] as it is now and
\* the components computed before, then the interaction response.  A failed
\* edit is only logged.
ChannelMessageEditComplex(a, ok) ==
    LET m == actions[a].msg
        state == messageStore[m]
    IN
    /\ ~panicked
    /\ actions[a].pc = "edit"
    /\ ok => messages[m].status # "deleted"
    /\ IF state.CurrentPage \notin 0..(Len(state.Pages) - 1)
       THEN /\ panicked' = TRUE
            /\ UNCHANGED <<messages, actions>>
       ELSE /\ actions' = [actions EXCEPT ![a] =
                              DoneAction(InteractionResponseUpdateMessage)]
            /\ messages' = IF ok
                           THEN [messages EXCEPT
                                    ![m].status = "shown", ![m].page = state.CurrentPage,
                                    ![m].buttons = actions[a].buttons,
                                    ![m].lo = actions[a].lo, ![m].hi = actions[a].hi]
                           ELSE messages
            /\ UNCHANGED panicked
    /\ UNCHANGED messageStore
    /\ UNCHANGED playvars

NextPages ==
    \/ \E m \in Messages, n \in 1..MaxPages : upload(m, n)
    \/ \E m \in Messages, urls \in 0..MaxItems : voicelines(m, urls)
    \/ \E m \in Messages, trackNames \in 1..MaxItems : delete(m, trackNames)
    \/ \E m \in Messages : StoreState(m)
    \/ \E m \in Messages : TimerFires(m)
    \/ \E m \in Messages : SelectMenuDelete(m)
    \/ \E a \in Actions, m \in Messages, kind \in PageActions : PageAction(a, m, kind)
    \/ \E a \in Actions : Wrap(a)
    \/ \E a \in Actions, ok \in BOOLEAN : ChannelMessage(a, ok)
    \/ \E a \in Actions, ok \in BOOLEAN : GuildMember(a, ok)
    \/ \E a \in Actions, ok \in BOOLEAN : ChannelMessageEditComplex(a, ok)

\* The paginated messages: the commands that send them, their timers and the
\* component handlers
SpecPages == Init /\ [][NextPages]_vars

\* A button pressed while no other invocation of the handler is running
PageActionAlone(a, m, kind) ==
    /\ \A b \in Actions : actions[b].pc \in {"idle", "done"}
    /\ PageAction(a, m, kind)

NextPagesSerial ==
    \/ \E m \in Messages, n \in 1..MaxPages : upload(m, n)
    \/ \E m \in Messages, urls \in 0..MaxItems : voicelines(m, urls)
    \/ \E m \in Messages, trackNames \in 1..MaxItems : delete(m, trackNames)
    \/ \E m \in Messages : StoreState(m)
    \/ \E m \in Messages : TimerFires(m)
    \/ \E m \in Messages : SelectMenuDelete(m)
    \/ \E a \in Actions, m \in Messages, kind \in PageActions : PageActionAlone(a, m, kind)
    \/ \E a \in Actions : Wrap(a)
    \/ \E a \in Actions, ok \in BOOLEAN : ChannelMessage(a, ok)
    \/ \E a \in Actions, ok \in BOOLEAN : GuildMember(a, ok)
    \/ \E a \in Actions, ok \in BOOLEAN : ChannelMessageEditComplex(a, ok)

\* The paginated messages with users who press one button at a time, each
\* after the handler of the button before has returned
SpecPagesSerial == Init /\ [][NextPagesSerial]_vars

Next ==
    \/ \E h \in Events, g \in Guilds, kind \in {"join", "left"},
          hasEntry \in BOOLEAN, lookupOk \in BOOLEAN :
          VoiceEvent(h, g, kind, hasEntry, lookupOk)
    \/ \E h \in Events : LeftLock(h)
    \/ \E h \in Events, ok \in BOOLEAN : LeftCheck(h, ok)
    \/ \E h \in Events, disconnected \in BOOLEAN : LeftRemove(h, disconnected)
    \/ \E h \in Events : Lock(h)
    \/ \E h \in Events, lookupOk \in BOOLEAN, perms \in SUBSET Permissions :
          CheckPermissions(h, lookupOk, perms)
    \/ \E h \in Events, ok \in BOOLEAN : EnsurePlayer(h, ok)
    \/ \E h \in Events, res \in {"ok", "notFound", "failed", "emptyList"} : Fetch(h, res)
    \/ \E h \in Events : Bail(h)
    \/ \E h \in Events : CheckState(h)
    \/ \E h \in Events : GlobalPlayFromHandler(h)
    \/ \E w \in WorkerIds : GlobalPlayFromWorker(w)
    \/ \E w \in WorkerIds : PlayCheck(w)
    \/ \E w \in WorkerIds : PlayLock(w)
    \/ \E w \in WorkerIds : PlayDequeue(w)
    \/ \E w \in WorkerIds, ok \in BOOLEAN : PlayEncode(w, ok)
    \/ \E w \in WorkerIds, err \in {"eof", "nil", "err"} : StreamDone(w, err)
    \/ \E w \in WorkerIds : PlayMarkIdle(w)
    \/ \E w \in WorkerIds : StreamClose(w)

\* The playback core: voice events, the dispatch loop and the workers
Spec == Init /\ [][Next]_vars

\* The steps of the goroutine of a worker and of its stream.  A close of
\* doneChan is not one of them: nothing in playAudio closes the channel.
playAudio(w) ==
    \/ GlobalPlayFromWorker(w)
    \/ PlayCheck(w)
    \/ PlayLock(w)
    \/ PlayDequeue(w)
    \/ \E ok \in BOOLEAN : PlayEncode(w, ok)
    \/ \E err \in {"eof", "nil", "err"} : StreamDone(w, err)
    \/ PlayMarkIdle(w)

\* The playback core with every worker goroutine scheduled as long as it has
\* a step to take, and every stream reporting its completion
SpecFair == Spec /\ \A w \in WorkerIds : WF_vars(playAudio(w))

\* The playback core together with the list command's signed-URL goroutines,
\* which take the same mutex
NextShared ==
    \/ Next
    \/ \E s \in SignTasks : SignLock(s)
    \/ \E s \in SignTasks, ok \in BOOLEAN : SignURL(s, ok)

SpecShared == Init /\ [][NextShared]_vars

\* ---- embeds.GetSuccessfulAudioRetrievalEmbeds, one call, loop by loop ----

\* The urls a call can be given: any list of at most MaxItems urls
Urls == {"u", "v"}
UrlLists == UNION {[1..n -> Urls] : n \in 0..MaxItems}

\* The largest number of fields of one embed
fieldsPerEmbed == 4

\* The field of the url at index i (from 0): its number i+1 and the url
EmbedField(i, url) == [number |-> i + 1, url |-> url]

\* endBound of the second loop; the embed takes embedFields[i:endBound]
endBoundShort(fields, i) == Min(Len(fields), i + fieldsPerEmbed - 1)
endBound(fields, i) == Min(Len(fields), i + fieldsPerEmbed)

\* The call starts with its two lists empty
InitEmbeds ==
    /\ InitBase
    /\ InitStore
    /\ \E urls \in UrlLists :
          embedCall = [pc |-> "fields", urls |-> urls, embedFields |-> <<>>,
                       embedList |-> <<>>, i |-> 0]

\* One iteration of "for i, url := range urls", or its end
AppendField ==
    /\ embedCall.pc = "fields"
    /\ LET i == Len(embedCall.embedFields) IN
       IF i < Len(embedCall.urls)
       THEN embedCall' = [embedCall EXCEPT
                !.embedFields = Append(@, EmbedField(i, embedCall.urls[i + 1]))]
       ELSE embedCall' = [embedCall EXCEPT !.pc = "embeds", !.i = 0]
    /\ UNCHANGED <<appvars, storevars>>

\* One iteration of "for i := 0; i < len(urls); i += 4"
AppendEmbed ==
    /\ embedCall.pc = "embeds"
    /\ embedCall.i < Len(embedCall.urls)
    /\ embedCall' = [embedCall EXCEPT
            !.embedList = Append(@, [Fields |->
                SubSeq(embedCall.embedFields, embedCall.i + 1,
                       endBound(embedCall.embedFields, embedCall.i))]),
            !.i = @ + fieldsPerEmbed]
    /\ UNCHANGED <<appvars, storevars>>

\* The loop ends and the call returns embedList
ReturnEmbeds ==
    /\ embedCall.pc = "embeds"
    /\ embedCall.i >= Len(embedCall.urls)
    /\ embedCall' = [embedCall EXCEPT !.pc = "returned"]
    /\ UNCHANGED <<appvars, storevars>>

NextEmbeds ==
    \/ AppendField
    \/ AppendEmbed
    \/ ReturnEmbeds

SpecEmbeds == InitEmbeds /\ [][NextEmbeds]_vars

\* ---- The bucket and the document under /upload and the delete menu ----

\* The largest number of entries of an uploaded zip
MaxFiles == 2

\* The name of a track uploaded before, and the names (uuids) the /upload
\* command gives to the files it uploads, one per file
OldTrack == 0
NewTracks == 1..MaxFiles
TrackNames == {OldTrack} \cup NewTracks

Range(seq) == {seq[k] : k \in 1..Len(seq)}

\* firestore.ArrayUnion and firestore.ArrayRemove of one record on the array
ArrayUnion(array, t) == IF t \in Range(array) THEN array ELSE Append(array, t)
ArrayRemove(array, t) == SelectSeq(array, LAMBDA x : x # t)

\* Whether every goroutine of an errgroup has returned, and whether one failed
Returned(tasks) == \A t \in DOMAIN tasks : tasks[t] \in {"done", "failed"}
Failed(tasks) == \E t \in DOMAIN tasks : tasks[t] = "failed"

\* The member has no document, an empty array, or one track uploaded before
InitStorage ==
    /\ InitBase
    /\ embedCall = NoEmbedCall
    /\ archive = {}
    /\ uploadCall = NoUploadCall
    /\ deleteCall = NoDeleteCall
    /\ greetCall = NoGreetCall
    /\ \/ document = NoDocument /\ blobs = {}
       \/ document = NoArrayDocument /\ blobs = {}
       \/ document = EmptyDocument /\ blobs = {}
       \/ /\ document = [exists |-> TRUE, hasArray |-> TRUE, array |-> <<OldTrack>>]
          /\ blobs = {OldTrack}

\* The outcomes of the first calls of /upload
StartOutcomes == {"ok", "notDeferred", "notDownloaded"}

\* /upload with an mp3 or mp4 attachment, or with a zip of n entries: the
\* deferred response that acknowledges the interaction, then http.Get and
\* util.DownloadFileToTempDirectory; a failure returns the error
uploadStart(kind, n, outcome) ==
    /\ uploadCall.pc = "none"
    /\ kind = "mp3" => n = 1
    /\ uploadCall' = [uploadCall EXCEPT
            !.kind = kind, !.entries = n,
            !.acknowledged = (outcome # "notDeferred"),
            !.pc = IF outcome # "ok" THEN "returned"
                   ELSE IF kind = "zip" THEN "unzip" ELSE "mp3_upload",
            !.result = IF outcome = "ok" THEN "" ELSE "error"]
    /\ UNCHANGED <<appvars, embedCall, greetCall, blobs, archive, document, deleteCall>>

\* util.Unzip: the zip cannot be opened (an error), or every entry is
\* extracted in turn and an entry whose extraction fails is skipped
Unzip(ok, extracted) ==
    /\ uploadCall.pc = "unzip"
    /\ extracted \subseteq 1..uploadCall.entries
    /\ ~ok => extracted = {}
    /\ uploadCall' = [uploadCall EXCEPT
            !.fileList = extracted,
            !.pc = IF ok THEN "document" ELSE "returned",
            !.result = IF ok THEN "" ELSE "error"]
    /\ UNCHANGED <<appvars, embedCall, greetCall, blobs, archive, document, deleteCall>>

\* The zip branch gets the document and creates it when it is not found, then
\* starts one goroutine per extracted file
zipDocument(ok) ==
    /\ uploadCall.pc = "document"
    /\ IF ok
       THEN /\ document' = IF document.exists THEN document ELSE EmptyDocument
            /\ uploadCall' = [uploadCall EXCEPT
                    !.pc = "files",
                    !.tasks = [f \in uploadCall.fileList |-> "upload"]]
       ELSE /\ uploadCall' = [uploadCall EXCEPT !.pc = "returned", !.result = "error"]
            /\ UNCHANGED document
    /\ UNCHANGED <<appvars, embedCall, greetCall, blobs, archive, deleteCall>>

\* A goroutine opens its file and uploads it as voicelines/<uuid>
zipUploadFile(f, ok) ==
    /\ uploadCall.pc = "files"
    /\ f \in DOMAIN uploadCall.tasks
    /\ uploadCall.tasks[f] = "upload"
    /\ blobs' = IF ok THEN blobs \cup {f} ELSE blobs
    /\ uploadCall' = [uploadCall EXCEPT !.tasks[f] = IF ok THEN "record" ELSE "failed"]
    /\ UNCHANGED <<appvars, embedCall, greetCall, archive, document, deleteCall>>

\* It adds the track record to the array with ArrayUnion
zipUpdateDocument(f, ok) ==
    /\ uploadCall.pc = "files"
    /\ f \in DOMAIN uploadCall.tasks
    /\ uploadCall.tasks[f] = "record"
    /\ ok => document.exists
    /\ IF ok
       THEN /\ document' = [document EXCEPT !.array = ArrayUnion(@, f),
                                            !.hasArray = TRUE]
            /\ uploadCall' = [uploadCall EXCEPT !.tasks[f] = "sign",
                                                !.appended = @ \cup {f}]
       ELSE /\ uploadCall' = [uploadCall EXCEPT !.tasks[f] = "failed"]
            /\ UNCHANGED document
    /\ UNCHANGED <<appvars, embedCall, greetCall, blobs, archive, deleteCall>>

\* It signs the url of the blob
zipSignURL(f, ok) ==
    /\ uploadCall.pc = "files"
    /\ f \in DOMAIN uploadCall.tasks
    /\ uploadCall.tasks[f] = "sign"
    /\ uploadCall' = [uploadCall EXCEPT !.tasks[f] = IF ok THEN "append" ELSE "failed"]
    /\ UNCHANGED <<appvars, embedCall, greetCall, blobs, archive, document, deleteCall>>

\* g.Lock(); urlsCreated = append(urlsCreated, signedURL); g.Unlock()
zipAppendURL(f) ==
    /\ uploadCall.pc = "files"
    /\ f \in DOMAIN uploadCall.tasks
    /\ uploadCall.tasks[f] = "append"
    /\ mu = NoTask
    /\ uploadCall' = [uploadCall EXCEPT !.tasks[f] = "done",
                                        !.urlsCreated = Append(@, f)]
    /\ UNCHANGED <<appvars, embedCall, greetCall, blobs, archive, document, deleteCall>>

\* eg.Wait(): an error of a goroutine, or no url at all, returns err (nil when
\* no goroutine failed); otherwise the command goes on to answer with the urls
zipWait ==
    /\ uploadCall.pc = "files"
    /\ Returned(uploadCall.tasks)
    /\ uploadCall' = [uploadCall EXCEPT
            !.pc = "returned",
            !.result = IF Failed(uploadCall.tasks) THEN "error"
                       ELSE IF uploadCall.urlsCreated = <<>> THEN "nothing"
                       ELSE "ok"]
    /\ UNCHANGED <<appvars, embedCall, greetCall, blobs, archive, document, deleteCall>>

\* The mp3 branch uploads the file as voicelines/<uuid> first
mp3UploadFile(ok) ==
    /\ uploadCall.pc = "mp3_upload"
    /\ blobs' = IF ok THEN blobs \cup {1} ELSE blobs
    /\ uploadCall' = [uploadCall EXCEPT
            !.pc = IF ok THEN "mp3_document" ELSE "returned",
            !.result = IF ok THEN "" ELSE "error"]
    /\ UNCHANGED <<appvars, embedCall, greetCall, archive, document, deleteCall>>

\* then gets the document and creates it when it is not found
mp3Document(ok) ==
    /\ uploadCall.pc = "mp3_document"
    /\ document' = IF ok /\ ~document.exists THEN EmptyDocument ELSE document
    /\ uploadCall' = [uploadCall EXCEPT
            !.pc = IF ok THEN "mp3_record" ELSE "returned",
            !.result = IF ok THEN "" ELSE "error"]
    /\ UNCHANGED <<appvars, embedCall, greetCall, blobs, archive, deleteCall>>

\* then adds the track record to the array with ArrayUnion
mp3UpdateDocument(ok) ==
    /\ uploadCall.pc = "mp3_record"
    /\ ok => document.exists
    /\ document' = IF ok THEN [document EXCEPT !.array = ArrayUnion(@, 1),
                                               !.hasArray = TRUE]
                   ELSE document
    /\ uploadCall' = [uploadCall EXCEPT
            !.pc = IF ok THEN "mp3_sign" ELSE "returned",
            !.appended = IF ok THEN {1} ELSE {},
            !.result = IF ok THEN "" ELSE "error"]
    /\ UNCHANGED <<appvars, embedCall, greetCall, blobs, archive, deleteCall>>

\* then signs the url and answers with it
mp3SignURL(ok) ==
    /\ uploadCall.pc = "mp3_sign"
    /\ uploadCall' = [uploadCall EXCEPT
            !.pc = "returned",
            !.urlsCreated = IF ok THEN <<1>> ELSE <<>>,
            !.result = IF ok THEN "ok" ELSE "error"]
    /\ UNCHANGED <<appvars, embedCall, greetCall, blobs, archive, document, deleteCall>>

\* The generic failure response
UnexpectedErrorEmbed == "unexpected error"

\* greeterHandler after g.upload has returned: on an error it responds to the
\* interaction with the generic failure, and drops the error of that call.  An
\* interaction takes one response: one that the deferred response has
\* acknowledged refuses the second.  Without an error the answer is the one
\* upload has sent, if it sent one.
greeterHandler(ok) ==
    /\ uploadCall.pc = "returned"
    /\ uploadCall' = [uploadCall EXCEPT
            !.pc = "handled",
            !.response = IF uploadCall.result = "ok" THEN "urls"
                         ELSE IF uploadCall.result = "error" /\ ok
                                 /\ ~uploadCall.acknowledged
                              THEN UnexpectedErrorEmbed
                         ELSE NoResponse]
    /\ UNCHANGED <<appvars, embedCall, greetCall, blobs, archive, document, deleteCall>>

\* A member selects tracks in the delete menu, whose options are the tracks of
\* the array; the handler looks the target member up first
selectTracks(values, ok) ==
    /\ deleteCall.pc = "none"
    /\ values # {}
    /\ values \subseteq Range(document.array)
    /\ deleteCall' = [deleteCall EXCEPT
            !.valuesSelected = values,
            !.pc = IF ok THEN "retrieve" ELSE "returned",
            !.result = IF ok THEN "" ELSE "error"]
    /\ UNCHANGED <<appvars, embedCall, greetCall, blobs, archive, document, uploadCall>>

\* g.retrieveTracks reads the array, then one goroutine per selected track
retrieveTracks(ok) ==
    /\ deleteCall.pc = "retrieve"
    /\ ok => document.exists /\ document.hasArray
    /\ deleteCall' = [deleteCall EXCEPT
            !.tracks = IF ok THEN document.array ELSE <<>>,
            !.tasks = IF ok THEN [t \in deleteCall.valuesSelected |-> "clone"] ELSE <<>>,
            !.pc = IF ok THEN "tracks" ELSE "returned",
            !.result = IF ok THEN "" ELSE "error"]
    /\ UNCHANGED <<appvars, embedCall, greetCall, blobs, archive, document, uploadCall>>

\* A goroutine copies voicelines/<track> to archive/<member>/<track>
CloneFileFromStorage(t, ok) ==
    /\ deleteCall.pc = "tracks"
    /\ t \in DOMAIN deleteCall.tasks
    /\ deleteCall.tasks[t] = "clone"
    /\ ok => t \in blobs
    /\ archive' = IF ok THEN archive \cup {t} ELSE archive
    /\ deleteCall' = [deleteCall EXCEPT !.tasks[t] = IF ok THEN "delete" ELSE "failed"]
    /\ UNCHANGED <<appvars, embedCall, greetCall, blobs, document, uploadCall>>

\* then deletes voicelines/<track>
DeleteFileFromStorage(t, ok) ==
    /\ deleteCall.pc = "tracks"
    /\ t \in DOMAIN deleteCall.tasks
    /\ deleteCall.tasks[t] = "delete"
    /\ ok => t \in blobs
    /\ blobs' = IF ok THEN blobs \ {t} ELSE blobs
    /\ deleteCall' = [deleteCall EXCEPT !.tasks[t] = IF ok THEN "remove" ELSE "failed"]
    /\ UNCHANGED <<appvars, embedCall, greetCall, archive, document, uploadCall>>

\* then removes the record it found in the tracks read before, with ArrayRemove
removeRecord(t, ok) ==
    /\ deleteCall.pc = "tracks"
    /\ t \in DOMAIN deleteCall.tasks
    /\ deleteCall.tasks[t] = "remove"
    /\ ok => document.exists
    /\ document' = IF ok /\ t \in Range(deleteCall.tracks)
                   THEN [document EXCEPT !.array = ArrayRemove(@, t)]
                   ELSE document
    /\ deleteCall' = [deleteCall EXCEPT !.tasks[t] = IF ok THEN "done" ELSE "failed"]
    /\ UNCHANGED <<appvars, embedCall, greetCall, blobs, archive, uploadCall>>

\* eg.Wait(): an error of a goroutine is logged and the handler returns;
\* otherwise the handler edits the message into the completion embed
deleteWait ==
    /\ deleteCall.pc = "tracks"
    /\ Returned(deleteCall.tasks)
    /\ deleteCall' = [deleteCall EXCEPT
            !.pc = "returned",
            !.result = IF Failed(deleteCall.tasks) THEN "error" ELSE "ok",
            !.response = IF Failed(deleteCall.tasks) THEN NoResponse ELSE "completed"]
    /\ UNCHANGED <<appvars, embedCall, greetCall, blobs, archive, document, uploadCall>>

\* A voice event chooses a track of the member: retrieveRandomAudioName gets
\* the document (an error, NotFound included, ends the event), returns the
\* empty name with a nil error when the document has no array under the key,
\* and otherwise the name at index rand.Intn(len(audioSlice)), which panics
\* for an empty array
retrieveRandomAudioName(ok, randomIndex) ==
    /\ greetCall.pc = "none"
    /\ randomIndex < Max(1, Len(document.array))
    /\ IF ~ok \/ ~document.exists
       THEN greetCall' = [greetCall EXCEPT !.pc = "returned", !.result = "error"]
       ELSE IF ~document.hasArray
       THEN greetCall' = [greetCall EXCEPT !.pc = "download", !.track = NoTrack]
       ELSE IF document.array = <<>>
       THEN greetCall' = [greetCall EXCEPT !.pc = "panicked"]
       ELSE greetCall' = [greetCall EXCEPT !.pc = "download",
                                          !.audioSlice = document.array,
                                          !.track = document.array[randomIndex + 1]]
    /\ UNCHANGED <<appvars, embedCall, blobs, archive, document, uploadCall, deleteCall>>

\* The event downloads voicelines/<name>, stages it and appends the staged
\* file to the queue; a failed download or staging ends the event
DownloadFileBytes(ok) ==
    /\ greetCall.pc = "download"
    /\ ok => greetCall.track \in blobs
    /\ greetCall' = [greetCall EXCEPT !.pc = IF ok THEN "enqueued" ELSE "returned",
                                      !.result = IF ok THEN "ok" ELSE "error"]
    /\ UNCHANGED <<appvars, embedCall, blobs, archive, document, uploadCall, deleteCall>>

NextStorage ==
    \/ \E kind \in {"mp3", "zip"}, n \in 1..MaxFiles, outcome \in StartOutcomes :
          uploadStart(kind, n, outcome)
    \/ \E ok \in BOOLEAN, extracted \in SUBSET NewTracks : Unzip(ok, extracted)
    \/ \E ok \in BOOLEAN : zipDocument(ok)
    \/ \E f \in NewTracks, ok \in BOOLEAN : zipUploadFile(f, ok)
    \/ \E f \in NewTracks, ok \in BOOLEAN : zipUpdateDocument(f, ok)
    \/ \E f \in NewTracks, ok \in BOOLEAN : zipSignURL(f, ok)
    \/ \E f \in NewTracks : zipAppendURL(f)
    \/ zipWait
    \/ \E ok \in BOOLEAN : mp3UploadFile(ok)
    \/ \E ok \in BOOLEAN : mp3Document(ok)
    \/ \E ok \in BOOLEAN : mp3UpdateDocument(ok)
    \/ \E ok \in BOOLEAN : mp3SignURL(ok)
    \/ \E ok \in BOOLEAN : greeterHandler(ok)
    \/ \E values \in SUBSET TrackNames, ok \in BOOLEAN : selectTracks(values, ok)
    \/ \E ok \in BOOLEAN : retrieveTracks(ok)
    \/ \E t \in TrackNames, ok \in BOOLEAN : CloneFileFromStorage(t, ok)
    \/ \E t \in TrackNames, ok \in BOOLEAN : DeleteFileFromStorage(t, ok)
    \/ \E t \in TrackNames, ok \in BOOLEAN : removeRecord(t, ok)
    \/ deleteWait
    \/ \E ok \in BOOLEAN, randomIndex \in 0..MaxFiles : retrieveRandomAudioName(ok, randomIndex)
    \/ \E ok \in BOOLEAN : DownloadFileBytes(ok)

SpecStorage == InitStorage /\ [][NextStorage]_vars

\* ============================================================== properties
AllocatedPlayers == 1..(nextPlayer - 1)

\* The player is the one the guild map holds for its guild
Registered(p) == guildPlayerMappings[players[p].guildID] = p

\* Worker w holds a dequeued track whose stream has not yet reported completion
InFlight(w) == workers[w].pc \in {"encode", "stream"}

\* Worker w has been spawned for player p and has not yet finished its
\* idle-or-continue step
Active(w, p) ==
    /\ workers[w].gp = p
    /\ workers[w].pc \in {"check", "lock", "dequeue", "encode", "stream",
                          "markidle", "resignal"}

\* Something is on its way that can still dequeue from p's queue or signal for
\* it: a worker before its idle-or-continue decision, a signal being sent, or a
\* handler that has appended and not yet decided whether to signal
WillServe(p) ==
    \/ \E w \in WorkerIds :
          /\ workers[w].gp = p
          /\ workers[w].pc \in {"check", "lock", "dequeue", "encode", "stream", "resignal"}
    \/ \E h \in Events :
          /\ handlers[h].pc \in {"check", "send"}
          /\ guildPlayerMappings[handlers[h].guild] = p

\* The guild can no longer start a track: its state is Playing, so no enqueue
\* signals, and nothing is on its way that would dequeue or signal
Blocked(p) ==
    /\ Registered(p)
    /\ players[p].voiceState = Playing
    /\ ~WillServe(p)

\* C1: at most one playback worker per guild is between dequeuing a track and
\* finishing its stream, in every reachable state.
C1_AtMostOneWorkerPerGuild ==
    \A w1, w2 \in WorkerIds :
        (w1 # w2 /\ InFlight(w1) /\ InFlight(w2))
            => players[workers[w1].gp].guildID # players[workers[w2].gp].guildID

\* C2: within one guild, streams start in enqueue order and no track is streamed
\* twice.  Staged files are named in enqueue order, so a player's stream log is
\* strictly increasing.
C2_FifoExactlyOnce ==
    \A p \in PlayerIds :
        \A i, j \in DOMAIN streamed[p] : i < j => streamed[p][i] < streamed[p][j]

\* C3: no enqueued track of a registered guild stays queued for good: whenever a
\* track is queued while the state is Playing (so that no later enqueue will
\* signal), a worker or a signal that will serve the queue is on its way.
C3_NoStrandedTrack ==
    \A p \in AllocatedPlayers :
        (Registered(p) /\ players[p].queue # <<>> /\ players[p].voiceState = Playing)
            => WillServe(p)

\* C4: a handler that has appended a track goes on to send a ReadySignal if and
\* only if the queue was empty and the state NotPlaying when it appended.
C4_SignalIffIdleAtAppend ==
    [][\A h \in Events :
          (handlers[h].pc = "check" /\ handlers'[h].pc # "check")
              => ((handlers'[h].pc = "send")
                      <=> (handlers[h].wasEmpty /\ handlers[h].wasIdle))]_vars

C6_FailureDoesNotBlockQueue ==
    [][\A w \in WorkerIds :
          (\/ workers[w].pc = "encode" /\ workers'[w].pc = "done"
           \/ workers[w].pc = "stream" /\ workers'[w].pc = "wait")
              => ~Blocked(workers[w].gp)']_vars

\* C7: a Playing guild has exactly one worker in flight, and a NotPlaying guild
\* has no worker streaming.
C7_StateMatchesWorkers ==
    \A p \in AllocatedPlayers :
        /\ players[p].voiceState = Playing
              => Cardinality({w \in WorkerIds : Active(w, p)}) = 1
        /\ players[p].voiceState = NotPlaying
              => ~\E w \in WorkerIds : workers[w].gp = p /\ workers[w].pc = "stream"

\* The handler's next step is an external blocking call: the permission lookup
\* of the left branch, the permission lookup and voice join for a guild without
\* an entry, or the track lookup, download and staging
InExternalCall(h) ==
    \/ handlers[h].pc = "left_ext"
    \/ handlers[h].pc = "join" /\ guildPlayerMappings[handlers[h].guild] = NoPlayer
    \/ handlers[h].pc = "voicejoin"
    \/ handlers[h].pc = "fetch"

\* C8: no task holds the registry lock while it performs an external blocking
\* call.
C8_NoLockAcrossExternalCall ==
    \A h \in Events : InExternalCall(h) => mu # HandlerTask(h)

\* C9: no handler, worker or signed-URL goroutine has returned while still
\* holding the lock.
C9_LockReleasedOnReturn ==
    /\ \A h \in Events : handlers[h].pc = "done" => mu # HandlerTask(h)
    /\ \A w \in WorkerIds : workers[w].pc = "done" => mu # WorkerTask(w)
    /\ \A s \in SignTasks : signers[s] \in {"done", "failed"} => mu # SignTask(s)

\* C10: the guild map and every player's queue and state change only in steps
\* taken while the registry lock is held.
C10_GuildStateChangesUnderLock ==
    [][(guildPlayerMappings' # guildPlayerMappings \/ players' # players)
          => mu # NoTask]_vars

\* Worker w's step finds the queue of its player empty, at the entry test or at
\* the dequeue
FindsQueueEmpty(w) ==
    /\ workers[w].gp # NoPlayer
    /\ players[workers[w].gp].queue = <<>>
    /\ PlayCheck(w) \/ PlayDequeue(w)

\* C11: a worker that finds its guild's queue empty, at its entry test or at the
\* dequeue after another worker emptied the queue in between, returns in that
\* step: nothing fails, nothing is streamed, and the guild's state is unchanged.
C11_EmptyDequeueReturnsQuietly ==
    [][\A w \in WorkerIds :
          FindsQueueEmpty(w)
              => /\ workers'[w].pc = "done"
                 /\ ~panicked'
                 /\ players' = players
                 /\ streamed' = streamed]_vars

\* The signal that the step sends, if the step is a send: the player it is for
\* and the worker that sends it (0 for a handler)
SignalSent(p, sender) ==
    \/ /\ sender = 0
       /\ \E h \in Events :
             /\ GlobalPlayFromHandler(h)
             /\ p = guildPlayerMappings[handlers[h].guild]
    \/ /\ sender \in WorkerIds
       /\ GlobalPlayFromWorker(sender)
       /\ p = workers[sender].gp

\* C12: whenever a ReadySignal is sent, the guild's queue is non-empty and no
\* worker other than the sender holds a dequeued track of that guild.
C12_SignalOnlyWhenIdleWithWork ==
    [][\A p \in PlayerIds, sender \in {0} \cup WorkerIds :
          SignalSent(p, sender)
              => /\ players[p].queue # <<>>
                 /\ \A w \in WorkerIds :
                       (w # sender /\ InFlight(w))
                           => players[workers[w].gp].guildID # players[p].guildID]_vars

\* C13: the end-of-track decision is atomic with respect to enqueues: no
\* registered guild is left with a track queued, the state NotPlaying, and
\* neither a worker nor a signal nor a deciding handler on its way.
C13_NoEnqueueLostAtTrackEnd ==
    \A p \in AllocatedPlayers :
        (Registered(p) /\ players[p].queue # <<>> /\ players[p].voiceState = NotPlaying)
            => WillServe(p)

\* The step is a step of worker w
WorkerStep(w) ==
    \/ PlayCheck(w)
    \/ PlayLock(w)
    \/ PlayDequeue(w)
    \/ \E ok \in BOOLEAN : PlayEncode(w, ok)
    \/ \E err \in {"eof", "nil", "err"} : StreamDone(w, err)
    \/ GlobalPlayFromWorker(w)
    \/ PlayMarkIdle(w)
    \/ StreamClose(w)

\* C14: every signal received starts exactly one worker, for the player that was
\* sent, in the step that frees the sender and whatever the other workers are
\* doing; and no step of a worker, whatever its outcome, ends the process in
\* which the dispatch loop runs.
C14_OneWorkerPerSignalLoopSurvives ==
    [][/\ \A p \in PlayerIds, sender \in {0} \cup WorkerIds :
             SignalSent(p, sender)
                 => /\ nextWorker' = nextWorker + 1
                    /\ workers'[nextWorker] = [pc |-> "check", gp |-> p, audioPath |-> NoFile]
                    /\ \A w \in WorkerIds \ {nextWorker, sender} : workers'[w] = workers[w]
       /\ \A w \in WorkerIds : WorkerStep(w) => ~panicked']_vars

\* The mutex is held by a signed-URL goroutine that has failed and returned
HeldByFailedTask == \E s \in SignTasks : mu = SignTask(s) /\ signers[s] = "failed"

\* A handler or a worker is waiting for the mutex
WaitingForLock ==
    \/ \E h \in Events : handlers[h].pc \in {"left_lock", "lock"}
    \/ \E w \in WorkerIds : workers[w].pc = "lock"

\* C15: a failure in one guild's playback or in one message interaction never
\* stops another guild's events or tracks: no handler and no worker waits for a
\* mutex that a failed and returned task still holds.
C15_FailureStaysLocal == ~(HeldByFailedTask /\ WaitingForLock)

\* The step is a step of handler h that changes its position
HandlerMoves(h) == handlers'[h] # handlers[h]

\* The step adds no track to any queue
NoEnqueue == \A p \in PlayerIds : Len(players'[p].queue) <= Len(players[p].queue)

\* The step creates no registry entry and no voice connection
NoEntryCreated ==
    \A g \in Guilds :
        /\ guildPlayerMappings[g] = NoPlayer => guildPlayerMappings'[g] = NoPlayer
        /\ voiceConnections'[g] => voiceConnections[g]

\* The step sends no ReadySignal: the dispatcher starts no worker
NoSignal == nextWorker' = nextWorker

\* Handler h is about to log, unlock and return for the given reason
Bailing(h, why) == handlers[h].pc = "bail" /\ handlers[h].why = why

\* C16: the voice join is attempted only by a handler whose permission lookup
\* returned both connect and speak for the target channel; entries and voice
\* connections come only from such a join; and a handler whose lookup failed or
\* lacked a permission holds no entry for its guild and returns without creating
\* one, without a join and without enqueuing.
C16_JoinOnlyWithBothPermissions ==
    [][/\ \A h \in Events :
             handlers'[h].pc = "voicejoin" => handlers'[h].perms = Permissions
       /\ ~NoEntryCreated
             => \E h \in Events :
                   /\ handlers[h].pc = "voicejoin"
                   /\ handlers[h].perms = Permissions
                   /\ HandlerMoves(h)
       /\ \A h \in Events :
             Bailing(h, "denied")
                 => /\ guildPlayerMappings[handlers[h].guild] = NoPlayer
                    /\ HandlerMoves(h)
                          => /\ handlers'[h] = DoneHandler
                             /\ NoEntryCreated /\ NoEnqueue /\ NoSignal]_vars

\* C16 witness: the bot has joined one guild's channel, and a handler has been
\* refused for want of a permission or of the lookup.
C16_Witness ==
    /\ \E g \in Guilds : voiceConnections[g]
    /\ \E h \in Events : Bailing(h, "denied")

\* C17: the event of a user who has a blacklist entry is dropped at the
\* blacklist test, also when the lookup fails: its handler returns there and so
\* goes on to no join, no registry entry, no enqueue and no ReadySignal.
C17_BlacklistedEventHasNoEffect ==
    [][\A h \in Events, g \in Guilds, kind \in {"join", "left"}, lookupOk \in BOOLEAN :
          VoiceEvent(h, g, kind, TRUE, lookupOk)
              => /\ handlers'[h] = DoneHandler
                 /\ NoEnqueue /\ NoEntryCreated /\ NoSignal]_vars

\* C18: a handler whose user has no track document for the category leaves the
\* queue and the state of every guild as they were, sends no signal, releases
\* the lock and returns without failing.
C18_NotFoundIsIgnored ==
    [][\A h \in Events :
          /\ (handlers[h].pc = "fetch" /\ Bailing(h, "notFound")')
                => players' = players /\ NoSignal
          /\ (Bailing(h, "notFound") /\ HandlerMoves(h))
                => /\ handlers'[h] = DoneHandler
                   /\ mu = HandlerTask(h) /\ mu' = NoTask
                   /\ players' = players
                   /\ NoSignal
                   /\ ~panicked']_vars

\* C18 witness: a handler has found no track document while an earlier track
\* is still queued in its guild.
C18_Witness ==
    \E h \in Events :
        /\ Bailing(h, "notFound")
        /\ players[guildPlayerMappings[handlers[h].guild]].queue # <<>>

\* C19: a failed voice join inserts no entry for the guild; the handler then
\* releases the lock and returns, with nothing enqueued and no signal sent, and
\* being returned it does not try the join again.
C19_FailedJoinLeavesNoEntry ==
    [][\A h \in Events :
          /\ (handlers[h].pc = "voicejoin" /\ Bailing(h, "joinFailed")')
                => NoEntryCreated /\ NoEnqueue /\ NoSignal
          /\ Bailing(h, "joinFailed")
                => /\ guildPlayerMappings[handlers[h].guild] = NoPlayer
                   /\ HandlerMoves(h)
                         => /\ handlers'[h] = DoneHandler
                            /\ mu = HandlerTask(h) /\ mu' = NoTask
                            /\ NoEntryCreated /\ NoEnqueue /\ NoSignal]_vars

\* C19 witness: a handler's voice join has failed while the other guild already
\* has its entry.
C19_Witness ==
    \E h \in Events :
        /\ Bailing(h, "joinFailed")
        /\ \E g \in Guilds : guildPlayerMappings[g] # NoPlayer

\* Handler h is between the lock of the left branch and its unlock
InLeftSection(h) == handlers[h].pc \in {"left_ext", "left_remove"}

\* C20: from the lock of the left branch through the member count to the
\* disconnect and the removal the handler holds the mutex without a break, and
\* meanwhile no step enqueues for its guild or changes the guild's entry.
C20_LeftBranchIsOneLockHold ==
    [][\A h \in Events :
          InLeftSection(h)'
              => /\ mu' = HandlerTask(h)
                 /\ InLeftSection(h)
                       => /\ guildPlayerMappings'[handlers[h].guild]
                                = guildPlayerMappings[handlers[h].guild]
                          /\ NoEnqueue]_vars

\* C20 witness: a left handler has counted only the bot and is about to
\* disconnect and remove the entry, while a worker of that guild waits for the
\* lock.
C20_Witness ==
    \E h \in Events :
        /\ handlers[h].pc = "left_remove"
        /\ voiceConnections[handlers[h].guild]
        /\ \E w \in WorkerIds :
              /\ workers[w].pc = "lock"
              /\ workers[w].gp = guildPlayerMappings[handlers[h].guild]

\* The step is the return of handler h from a left event of guild g before the
\* outro: at the blacklist test, after a failed lookup of the left branch, or
\* at the end of the left branch
LeftHandlerReturns(h, g) ==
    /\ handlers'[h].pc = "done"
    /\ \/ handlers[h].pc = "idle" /\ humans'[g] < humans[g]
       \/ handlers[h].pc \in {"left_ext", "left_remove"} /\ handlers[h].guild = g

\* C21: a left event that leaves only the bot in the guild's channel ends with
\* the guild's entry removed and the bot disconnected, whoever the human was:
\* its handler does not return with no human left, the bot connected and the
\* entry still there.
C21_LastHumanLeftEntryRemoved ==
    [][\A h \in Events, g \in Guilds :
          (LeftHandlerReturns(h, g) /\ humans'[g] = 0 /\ voiceConnections[g])
              => guildPlayerMappings'[g] = NoPlayer /\ ~voiceConnections'[g]]_vars

\* Worker w holds a dequeued track whose staged file it has yet to delete
HoldsTrack(w) == workers[w].audioPath # NoFile /\ workers[w].pc # "done"

\* The step is a panic of a handler, or of a worker that holds no track yet
PanicElsewhere ==
    \/ \E h \in Events : CheckState(h)
    \/ \E h \in Events : Fetch(h, "emptyList")
    \/ \E v \in WorkerIds : ~HoldsTrack(v) /\ (PlayCheck(v) \/ PlayDequeue(v))

PageCount(m) == Len(messageStore[m].Pages)
InPageAction(a) == actions[a].pc \in {"wrap", "fetch", "member", "edit"}

\* The handler a takes the step that ends the switch: the arm of first or
\* last, or the wraparound test of prev or next
EndsSwitch(a) ==
    /\ actions[a].pc \in {"idle", "wrap"}
    /\ actions'[a].pc = "fetch"

\* C23: for a registered message with n >= 1 pages, a page action that finds
\* the page cp (no other handler writing the page between its two statements)
\* leaves the switch with CurrentPage 0 on first, n-1 on last, (cp-1) mod n on
\* prev and (cp+1) mod n on next.
C23_PageActionNavigates ==
    [][\A a \in Actions :
          EndsSwitch(a) =>
              LET m == actions'[a].msg
                  n == PageCount(m)
                  kind == actions'[a].kind
                  cp == actions'[a].from
                  page == messageStore'[m].CurrentPage
              IN  /\ n >= 1
                  /\ kind = "first" => page = 0
                  /\ kind = "last" => page = n - 1
                  /\ (kind = "prev" /\ cp \in 0..(n - 1)
                        /\ messageStore[m].CurrentPage = cp - 1)
                         => page = (cp - 1) % n
                  /\ (kind = "next" /\ cp \in 0..(n - 1)
                        /\ messageStore[m].CurrentPage = cp + 1)
                         => page = (cp + 1) % n]_vars

\* A prev that found page 0 is about to fetch the message from the last page
C23_Witness ==
    \E a \in Actions :
        /\ actions[a].pc = "fetch" /\ actions[a].kind = "prev"
        /\ PageCount(actions[a].msg) >= 2
        /\ actions[a].from = 0
        /\ messageStore[actions[a].msg].CurrentPage = PageCount(actions[a].msg) - 1

\* No handler is between its lookup of the state of m and its return
Quiet(m) == \A a \in Actions : InPageAction(a) => actions[a].msg # m

\* The message m is shown with buttons and a select menu, and its state exists
ShownWithMenu(m) ==
    /\ messages[m].status = "shown"
    /\ messages[m].flow = "delete"
    /\ messages[m].buttons # NoButtons
    /\ messageStore[m].exists

\* The index range of the items that page shows when every page but the last
\* holds four of the total items
ItemsOfPage(page, total) ==
    [lo |-> itemsPerPage * page, hi |-> Min(itemsPerPage * page + itemsPerPage, total)]

\* C24: after any sequence of page actions on a delete message, one at a
\* time, the options of the select menu are exactly the items of the current
\* page, [4*currentPage, min(4*currentPage+4, total)).
C24_WindowIsCurrentPage ==
    \A m \in Messages :
        (ShownWithMenu(m) /\ Quiet(m)
            /\ messages[m].page = messageStore[m].CurrentPage)
            => LET items == ItemsOfPage(messageStore[m].CurrentPage,
                                        Len(messageStore[m].SelectMenuData))
               IN  messages[m].lo = items.lo /\ messages[m].hi = items.hi

\* The message m is shown with a select menu, and its state exists
ShownSelectMenu(m) ==
    /\ messages[m].status = "shown"
    /\ messages[m].flow = "delete"
    /\ messageStore[m].exists

\* C25: whenever a message with selectable items is shown and no handler is
\* at work on it, the options [lo, hi) of its select menu satisfy
\* 0 <= lo <= hi <= total and hi - lo <= 4, and the stored SelectMenuBound is
\* hi, the exclusive upper bound of the options displayed.
C25_BoundTracksDisplayedWindow ==
    \A m \in Messages :
        (ShownSelectMenu(m) /\ Quiet(m))
            => /\ 0 <= messages[m].lo
               /\ messages[m].lo <= messages[m].hi
               /\ messages[m].hi <= Len(messageStore[m].SelectMenuData)
               /\ messages[m].hi - messages[m].lo <= itemsPerPage
               /\ messageStore[m].SelectMenuBound = messages[m].hi

\* A handler that has left the switch and goes on to read the state of m
ReadsState(a, m) == actions[a].pc \in {"fetch", "member", "edit"} /\ actions[a].msg = m

\* C26: a stored state has at least one page, and its CurrentPage is in
\* 0..len(Pages)-1 from its registration on and after every page action:
\* whenever no handler is at work on the message, and whenever a handler that
\* has left the switch is about to read the state.
C26_CurrentPageInRange ==
    \A m \in Messages :
        messageStore[m].exists
            => /\ PageCount(m) >= 1
               /\ (Quiet(m) \/ \E a \in Actions : ReadsState(a, m))
                     => messageStore[m].CurrentPage \in 0..(PageCount(m) - 1)

\* C27: in every rendering of a message with buttons, first and prev are
\* disabled iff the page shown is page 0, next and last iff it is the last
\* page.
C27_ButtonsMatchPage ==
    \A m \in Messages :
        (messages[m].status = "shown" /\ messages[m].buttons # NoButtons)
            => LET onFirst == messages[m].page = 0
                   onLast == messages[m].page = Len(messages[m].pages) - 1
               IN  messages[m].buttons = <<onFirst, onFirst, onLast, onLast>>

\* The response the caller of a page action makes of the UnknownMessage outcome
NoLongerAvailable == "no longer available"

\* C28: a page action on a message that has no pagination state is answered
\* with the "no longer available" response and changes no pagination state.
C28_UnknownMessageAnswered ==
    [][\A a \in Actions, m \in Messages, kind \in PageActions :
          (PageAction(a, m, kind) /\ ~messageStore[m].exists)
              => /\ actions'[a].response = NoLongerAvailable
                 /\ messageStore' = messageStore]_vars

\* C29: once a message has been deleted by its timer, or the delete flow has
\* completed on it, no pagination state is stored for it.
C29_StateDoesNotOutliveMessage ==
    \A m \in Messages :
        messages[m].status \in {"deleted", "completed"} => ~messageStore[m].exists

\* The state in which upload, voicelines or delete registered the message m
RegisteredState(m) ==
    [messageStore[m] EXCEPT
        !.CurrentPage = 0,
        !.SelectMenuBound = IF messageStore[m].SelectMenuData = NilData THEN 0
                            ELSE Min(Len(messageStore[m].SelectMenuData), itemsPerPage)]

\* One page action run from state on its own with every call succeeding: the
\* state it leaves, and the page, buttons and options it renders
RunAlone(state, kind) ==
    LET n == Len(state.Pages)
        moved == [state EXCEPT !.CurrentPage = WrapPage(Navigate(@, kind, n), kind, n)]
        hasMenu == state.SelectMenuData # NilData
        w == SelectWindow(moved, kind = "next")
    IN  [state |-> IF hasMenu THEN [moved EXCEPT !.SelectMenuBound = w.hi] ELSE moved,
         page |-> moved.CurrentPage,
         buttons |-> buttonStatusMapping(moved),
         lo |-> IF hasMenu THEN w.lo ELSE 0,
         hi |-> IF hasMenu THEN w.hi ELSE 0]

\* What the handler a, which is about to send its edit, renders
Rendering(a) ==
    [page |-> messageStore[actions[a].msg].CurrentPage, buttons |-> actions[a].buttons,
     lo |-> actions[a].lo, hi |-> actions[a].hi]

\* The handlers x and y leave the state and render what running x and then y
\* alone from the registered state does
SameAsInOrder(m, x, y) ==
    LET first == RunAlone(RegisteredState(m), actions[x].kind)
        second == RunAlone(first.state, actions[y].kind)
    IN  /\ messageStore[m] = second.state
        /\ Rendering(x) = [page |-> first.page, buttons |-> first.buttons,
                           lo |-> first.lo, hi |-> first.hi]
        /\ Rendering(y) = [page |-> second.page, buttons |-> second.buttons,
                           lo |-> second.lo, hi |-> second.hi]

\* C30: two page actions that run concurrently on a message leave the
\* CurrentPage and SelectMenuBound, and render the pages and windows, of one
\* of the two orders of running them one after the other.  Stated for the
\* first two page actions on a message, at the point where every call of both
\* has succeeded and both are about to send their rendering.
C30_ConcurrentActionsSerialize ==
    \A m \in Messages : \A a, b \in Actions :
        (/\ a # b
         /\ actions[a].pc = "edit" /\ actions[a].msg = m
         /\ actions[b].pc = "edit" /\ actions[b].msg = m
         /\ \A c \in Actions \ {a, b} : actions[c].pc = "idle")
            => SameAsInOrder(m, a, b) \/ SameAsInOrder(m, b, a)

\* ---- The embeds of a listing ----

RECURSIVE FieldsOf(_)
\* The fields of a list of embeds, in order
FieldsOf(embedList) ==
    IF embedList = <<>> THEN <<>>
    ELSE embedList[1].Fields \o FieldsOf(Tail(embedList))

\* ceil(n / 4)
CeilDiv(n, d) == (n + d - 1) \div d

C32_ZipUploadYieldsAllFiles ==
    (uploadCall.pc = "returned" /\ uploadCall.kind = "zip" /\ uploadCall.result = "ok") =>
        /\ Len(uploadCall.urlsCreated) = uploadCall.entries
        /\ Cardinality(uploadCall.appended) = uploadCall.entries

\* C33: every error of a command ends with the generic failure response shown
\* to the user: an /upload that returned an error has been answered with it,
\* and so has a selection in the delete menu whose deletion failed.  (The
\* playback path has no interaction to answer.)
C33_CommandErrorIsAnswered ==
    /\ (uploadCall.pc = "handled" /\ uploadCall.result = "error")
            => uploadCall.response = UnexpectedErrorEmbed
    /\ (deleteCall.pc = "returned" /\ deleteCall.result = "error")
            => deleteCall.response = UnexpectedErrorEmbed

\* ---- The worker at the end of a stream ----

\* C34: a stream that reports an error other than io.EOF ends the worker as an
\* encode failure does: in the step that takes the error the worker deletes
\* the staged file and terminates, and it neither puts the track back on the
\* queue nor streams it again.
C34_StreamErrorEndsWorker ==
    [][\A w \in WorkerIds :
          StreamDone(w, "err")
              => /\ workers'[w].pc = "done"
                 /\ workers[w].audioPath \notin tempFiles'
                 /\ players' = players
                 /\ streamed' = streamed]_vars

\* C35: every worker invocation terminates: once it has been started it
\* eventually returns, and in particular it returns once it has received the
\* completion value of its stream and has done the step that follows it.
C35_WorkerTerminates ==
    \A w \in WorkerIds : (workers[w].pc # "unborn") ~> (workers[w].pc = "done")

\* ---- The track of a greeting ----

\* C36: the track a voice event enqueues is one of the tracks of the list it
\* read for the user and the category, and an event that finds the list empty,
\* or no list under the key, enqueues nothing and ends as an event without a
\* track does: it does not fail.
C36_EnqueuedTrackIsOfTheList ==
    /\ greetCall.pc = "enqueued" => greetCall.track \in Range(greetCall.audioSlice)
    /\ greetCall.pc # "panicked"

\* ---- A page action that fails ----

\* C37: a page action whose message fetch, member lookup or message edit
\* fails leaves the state of the message as it was before the action, which is
\* what the message shows: after the failing step CurrentPage is the page
\* displayed and SelectMenuBound is the end of the window displayed.
C37_FailedActionKeepsState ==
    [][\A a \in Actions :
          LET m == actions[a].msg IN
          (\/ ChannelMessage(a, FALSE)
           \/ GuildMember(a, FALSE)
           \/ ChannelMessageEditComplex(a, FALSE))
              => /\ messageStore'[m].CurrentPage = messages[m].page
                 /\ messageStore[m].SelectMenuData # NilData
                        => messageStore'[m].SelectMenuBound = messages[m].hi]_vars

\* ---- Records and blobs ----

\* The goroutine that deletes the track t has deleted the blob and is about
\* to remove the record
RemovingRecord(t) ==
    /\ deleteCall.pc = "tracks"
    /\ t \in DOMAIN deleteCall.tasks
    /\ deleteCall.tasks[t] = "remove"

\* C38: in every reachable state, also after a failure inside upload or
\* delete, each track record of the array names a blob that exists under
\* voicelines/; the only record without a blob is the one whose deletion is
\* between the delete of the blob and the removal of the record.
C38_RecordsNameBlobs ==
    \A t \in Range(document.array) : t \in blobs \/ RemovingRecord(t)

\* ---- Entries and the events that create them ----

\* A track has been enqueued for the player p: it is queued, or a worker was
\* started for p
HasEnqueued(p) ==
    \/ players[p].queue # <<>>
    \/ \E w \in WorkerIds : workers[w].pc # "unborn" /\ workers[w].gp = p

\* A handler of guild g is between the insertion of the entry and the append
FetchingFor(g) == \E h \in Events : handlers[h].guild = g /\ handlers[h].pc = "fetch"

\* C39: an event that enqueues nothing creates no registry entry and no voice
\* connection: every guild in the registry, and every guild with a voice
\* connection, got there by an event that enqueued a track or that is still
\* on its way to the append.
C39_NoEntryWithoutEnqueue ==
    \A g \in Guilds :
        (guildPlayerMappings[g] # NoPlayer \/ voiceConnections[g])
            => \/ FetchingFor(g)
               \/ /\ guildPlayerMappings[g] # NoPlayer
                  /\ HasEnqueued(guildPlayerMappings[g])

\* ---- After the removal of an entry ----

\* C40: once a guild's entry has been removed no worker takes a further track
\* from the removed entry's queue to stream it, and a handler that makes its
\* signal decision after the unlock on an entry that is gone neither fails nor
\* sends a signal.
C40_RemovedEntryIsLeftAlone ==
    [][/\ \A w \in WorkerIds :
             (workers[w].pc = "dequeue" /\ workers'[w].pc = "encode")
                 => Registered(workers[w].gp)
       /\ \A h \in Events :
             (CheckState(h) /\ guildPlayerMappings[handlers[h].guild] = NoPlayer)
                 => /\ ~panicked'
                    /\ handlers'[h] = DoneHandler
                    /\ NoSignal]_vars

====
